---- MODULE Spec2Model ----
(***************************************************************************)
(* Model of the SmartCash SAPI address endpoints                           *)
(* (src/src/sapi/sapi_address.cpp): the unspent-output selection           *)
(* (address_utxos_amount), the unspent-output listing (address_utxos), the *)
(* balance aggregation (GetAddressesBalances, address_balances), the       *)
(* transaction listing (GetAddressesTransactions, address_transactions),   *)
(* the time-lock evaluation (IsTimeLocked) and the fee function            *)
(* (CalculateFee).                                                         *)
(***************************************************************************)
EXTENDS Integers, Sequences, FiniteSets, TLC

VARIABLES
    chainTip,       \* chainActive: [height, hasTip, mtp, now]
    chainTx,        \* block storage seen through (blockHeight, txhash, address)
    utxoIndex,      \* the address's unspent index, ordered by key
    spentIndex,     \* mempool spent index: keys of outputs spent by a pending tx
    addressIndex,   \* address -> confirmed index deltas, in ledger order
    mempoolIndex,   \* address -> mempool deltas
    instantLocks,   \* txids locked by InstantSend
    selReq,         \* body parameters of address_utxos_amount
    sel,            \* locals of address_utxos_amount and its position
    timeUp,         \* GetTimeMicros() - nTime0 > nMatchTimeoutMicros
    selReply,       \* what address_utxos_amount answered
    selFetched,     \* history: the slices fetched, as <<page, outputs>>
    balReq,         \* body parameter of address_balances: the address strings
    balOut,         \* what GetAddressesBalances left in its output parameters
    balReply,       \* what address_balances answered
    txReq,          \* body parameters of address_transactions but pageNumber
    txLog,          \* pageNumber -> what address_transactions answered for it
    feeIn,          \* argument of CalculateFee
    feeOut,         \* its result
    lockIn,         \* arguments of IsTimeLocked: the transaction hash
    lockOut,        \* what IsTimeLocked returned
    listReq,        \* body parameters of address_utxos
    listReply       \* what address_utxos answered

chainVars == <<chainTip, chainTx, utxoIndex, spentIndex, addressIndex,
               mempoolIndex, instantLocks>>
selVars   == <<selReq, sel, timeUp, selReply, selFetched>>
balVars   == <<balReq, balOut, balReply>>
txVars    == <<txReq, txLog>>
feeVars   == <<feeIn, feeOut>>
lockVars  == <<lockIn, lockOut>>
listVars  == <<listReq, listReply>>
vars      == <<chainVars, selVars, balVars, txVars, feeVars, lockVars, listVars>>
nonSelVars == <<balVars, txVars, feeVars, lockVars, listVars>>
nonBalVars == <<selVars, txVars, feeVars, lockVars, listVars>>
nonTxVars  == <<selVars, balVars, feeVars, lockVars, listVars>>
nonFeeVars == <<selVars, balVars, txVars, lockVars, listVars>>
nonLockVars == <<selVars, balVars, txVars, feeVars, listVars>>
nonListVars == <<selVars, balVars, txVars, feeVars, lockVars>>

(***************************************************************************)
(* Bounds of the model                                                     *)
(***************************************************************************)
\* nUtxosSlice is 2000 in the source; the model scans slices of this size.
nUtxosSlice == 3
\* Largest number of unspent outputs of the address.
MaxUtxos == 5
\* Largest number of confirmed index deltas of an address.
MaxDeltas == 4
\* Largest number of address strings in one balances request.
MaxAddrs == 2
\* Largest pageSize and pageNumber of a transactions request.
MaxPageSize == 2
MaxPageNumber == 4
\* Largest input count CalculateFee is applied to on its own.
MaxFeeInputs == 120

(***************************************************************************)
(* Program constants                                                       *)
(***************************************************************************)
LOCKTIME_THRESHOLD == 500000000
INSTANTSEND_CONFIRMATIONS_REQUIRED == 2
MinFee == 100000

(***************************************************************************)
(* Helpers                                                                 *)
(***************************************************************************)
Max(a, b) == IF a >= b THEN a ELSE b

Range(s) == {s[i] : i \in DOMAIN s}

\* All orders of the elements of s.
Orders(s) ==
    LET n == Len(s)
        Bij == {f \in [1..n -> 1..n] : \A i, j \in 1..n : i # j => f[i] # f[j]}
    IN  {[i \in 1..n |-> s[f[i]]] : f \in Bij}

\* The elements of pool whose position is in S, in pool order.
PickOrdered(pool, S) ==
    LET F[i \in 0..Len(pool)] ==
            IF i = 0 THEN <<>>
            ELSE IF i \in S THEN Append(F[i - 1], pool[i]) ELSE F[i - 1]
    IN  F[Len(pool)]

(***************************************************************************)
(* The ledger the requests run against                                     *)
(***************************************************************************)
\* Unspent outputs the address may hold, in key order.
UtxoPool ==
    << [txhash |-> "t1", index |-> 0, nBlockHeight |-> 1, satoshis |-> 200000],
       [txhash |-> "t1", index |-> 1, nBlockHeight |-> 1, satoshis |-> 500000],
       [txhash |-> "t2", index |-> 0, nBlockHeight |-> 2, satoshis |-> 200000],
       [txhash |-> "t3", index |-> 0, nBlockHeight |-> 3, satoshis |-> 900000],
       [txhash |-> "t4", index |-> 0, nBlockHeight |-> 4, satoshis |-> 300000],
       [txhash |-> "t5", index |-> 0, nBlockHeight |-> 4, satoshis |-> 500000] >>

\* An address holding three unspent outputs of 500000000, 300000000 and
\* 100000000, none of them locked or spent in the mempool.
ScenarioUtxos ==
    << [txhash |-> "s1", index |-> 0, nBlockHeight |-> 1, satoshis |-> 500000000],
       [txhash |-> "s2", index |-> 0, nBlockHeight |-> 1, satoshis |-> 300000000],
       [txhash |-> "s3", index |-> 0, nBlockHeight |-> 1, satoshis |-> 100000000] >>

\* An address holding ten unspent outputs of 150000 each, all paid by one
\* transaction: a request for 1300000 needs every one of them, and the fee
\* of its solution passes from 100000 to 200000 at the tenth input.
DustUtxos ==
    [i \in 1..10 |->
        [txhash |-> "d1", index |-> i - 1, nBlockHeight |-> 2, satoshis |-> 150000]]

TxIds == {"t1", "t2", "t3", "t4", "t5", "s1", "s2", "s3", "d1"}

\* The outputs paying the address in each transaction: t2 is locked until
\* height 10, t4 until time 500000100.
ChainTxs ==
    [t \in TxIds |->
        [readable |-> TRUE, found |-> TRUE, vout |-> TRUE,
         nLockTime |-> IF t = "t2" THEN 10
                       ELSE IF t = "t4" THEN 500000100 ELSE 0]]

ChainTips ==
    { [height |-> 4, hasTip |-> TRUE, mtp |-> 500000000, now |-> 500000050],
      [height |-> 12, hasTip |-> TRUE, mtp |-> 500000200, now |-> 500000250] }

SpentIndexes == { {}, {<<"t1", 1>>} }

ExpectedAmounts == {400000, 1500000}

\* Address strings: GetIndexKey succeeds on A1 and A2 only.
Addresses == {"A1", "A2", "BAD"}

GetIndexKey(addrStr) == addrStr \in {"A1", "A2"}

\* Confirmed index deltas A1 may hold, in ledger order: t1 pays 1000 and
\* 500, t2 spends the 1000 and pays back 700 (locked until height 10), t3
\* spends the 500.
DeltaPool ==
    << [txhash |-> "t1", blockHeight |-> 1, value |-> 1000],
       [txhash |-> "t1", blockHeight |-> 1, value |-> 500],
       [txhash |-> "t2", blockHeight |-> 2, value |-> -1000],
       [txhash |-> "t2", blockHeight |-> 2, value |-> 700],
       [txhash |-> "t3", blockHeight |-> 3, value |-> -500] >>

\* What the index may hold for A2 when it has a record of it: no delta, or
\* one receive.
IndexesOfA2 ==
    { <<>>, <<[txhash |-> "t5", blockHeight |-> 4, value |-> 300]>> }

\* Mempool deltas of A1: m1 spends 400 and pays back 100, m2 pays 250.
MempoolPool ==
    << [txhash |-> "m1", index |-> 0, amount |-> -400, time |-> 20],
       [txhash |-> "m1", index |-> 1, amount |-> 100, time |-> 20],
       [txhash |-> "m2", index |-> 0, amount |-> 250, time |-> 10] >>

\* Mempool deltas of A2.
MempoolOfA2 == <<[txhash |-> "m2", index |-> 1, amount |-> 50, time |-> 10]>>

InstantLockSets == { {}, {"m1"} }

InitChain ==
    /\ chainTip \in ChainTips
    /\ chainTx = ChainTxs

(***************************************************************************)
(* CalculateFee                                                            *)
(***************************************************************************)
\* CalculateFee without the floor of std::max.
CalculateFeeNoFloor(nInputs) ==
    LET feeCalc == (((nInputs * 148) + (2 * 34) + 10 + 9) * 100000) \div 1024
    IN  ((feeCalc + 50000) \div 100000) * 100000

\* feeCalc = (((nInputs*148) + (2*34) + 10 + 9) / 1024.0) * 100000, truncated
\* to CAmount; then floor(feeCalc / 100000.0 + 0.5) * 100000; then the floor
\* of 100000.  The double arithmetic is exact on these values.
CalculateFee(nInputs) ==
    LET feeCalc == (((nInputs * 148) + (2 * 34) + 10 + 9) * 100000) \div 1024
        rounded == ((feeCalc + 50000) \div 100000) * 100000
    IN  Max(rounded, MinFee)

(***************************************************************************)
(* IsTimeLocked                                                            *)
(***************************************************************************)
\* What reading the chain for (blockHeight, txhash, address) yields is held
\* in chainTx[txhash]: block readable, tx found in it, an output paying the
\* address present, and that output's lock time.
\* IsTimeLocked with both comparisons inclusive.
IsTimeLockedInclusive(txhash) ==
    LET t == chainTx[txhash]
        nCurrentHeight == chainTip.height
        nCurrentTime == IF chainTip.hasTip THEN chainTip.mtp ELSE chainTip.now
    IN  IF ~t.readable THEN [ok |-> FALSE, code |-> "BlockNotFound", locked |-> FALSE]
        ELSE IF ~t.found THEN [ok |-> FALSE, code |-> "TxNotFound", locked |-> FALSE]
        ELSE IF ~t.vout THEN [ok |-> TRUE, code |-> "Valid", locked |-> FALSE]
        ELSE [ok |-> TRUE, code |-> "Valid",
              locked |-> /\ t.nLockTime # 0
                         /\ \/ (t.nLockTime < LOCKTIME_THRESHOLD /\ nCurrentHeight <= t.nLockTime)
                            \/ (t.nLockTime >= LOCKTIME_THRESHOLD /\ nCurrentTime <= t.nLockTime)]

IsTimeLocked(txhash) ==
    LET t == chainTx[txhash]
        nCurrentHeight == chainTip.height
        nCurrentTime == IF chainTip.hasTip THEN chainTip.mtp ELSE chainTip.now
    IN  IF ~t.readable THEN [ok |-> FALSE, code |-> "BlockNotFound", locked |-> FALSE]
        ELSE IF ~t.found THEN [ok |-> FALSE, code |-> "TxNotFound", locked |-> FALSE]
        ELSE IF ~t.vout THEN [ok |-> TRUE, code |-> "Valid", locked |-> FALSE]
        ELSE [ok |-> TRUE, code |-> "Valid",
              locked |-> /\ t.nLockTime # 0
                         /\ \/ (t.nLockTime < LOCKTIME_THRESHOLD /\ nCurrentHeight < t.nLockTime)
                            \/ (t.nLockTime >= LOCKTIME_THRESHOLD /\ nCurrentTime < t.nLockTime)]

(***************************************************************************)
(* CUnspentSolution                                                        *)
(***************************************************************************)
NullSolution == [vecUtxos |-> <<>>, amount |-> 0, fee |-> 0, change |-> 0]

IsNull(s) == Len(s.vecUtxos) = 0

SameKey(a, b) ==
    a.txhash = b.txhash /\ a.index = b.index /\ a.nBlockHeight = b.nBlockHeight

\* AddUtxo without the search for the key in vecUtxos.
AddUtxoNoSearch(s, utxo) ==
    [s EXCEPT !.amount = s.amount + utxo.satoshis,
              !.vecUtxos = Append(s.vecUtxos, utxo),
              !.fee = CalculateFee(Len(s.vecUtxos) + 1)]

\* AddUtxo that prices the solution before the output is pushed.
AddUtxoStaleFee(s, utxo) ==
    IF \E i \in DOMAIN s.vecUtxos : SameKey(utxo, s.vecUtxos[i])
    THEN s
    ELSE [s EXCEPT !.amount = s.amount + utxo.satoshis,
                   !.vecUtxos = Append(s.vecUtxos, utxo),
                   !.fee = CalculateFee(Len(s.vecUtxos))]

AddUtxo(s, utxo) ==
    IF \E i \in DOMAIN s.vecUtxos : SameKey(utxo, s.vecUtxos[i])
    THEN s
    ELSE [s EXCEPT !.amount = s.amount + utxo.satoshis,
                   !.vecUtxos = Append(s.vecUtxos, utxo),
                   !.fee = CalculateFee(Len(s.vecUtxos) + 1)]

(***************************************************************************)
(* Collaborators of the selection                                          *)
(***************************************************************************)
\* GetAddressUnspentCount
GetUTXOCount == Len(utxoIndex)

\* GetAddressUnspent(start = first key, offset, limit, reverse = false): the
\* limit entries of the index that follow the first offset ones, as the
\* vector the call leaves in unspentOutputs.
GetUTXOs(offset, limit) ==
    SubSeq(utxoIndex, offset + 1, IF offset + limit <= Len(utxoIndex)
                                  THEN offset + limit ELSE Len(utxoIndex))

\* mempool.getSpentIndex
InSpentIndex(utxo) == <<utxo.txhash, utxo.index>> \in spentIndex

(***************************************************************************)
(* address_utxos_amount                                                    *)
(***************************************************************************)
SelIdle ==
    [pc |-> "idle", nUtxoCount |-> 0, nPages |-> 0, nPageStart |-> 0,
     nPageCurrent |-> 0, nHeight |-> 0, fTimedOut |-> FALSE,
     unspentOutputs |-> <<>>, it |-> 1,
     currentSolution |-> NullSolution, bestSolution |-> NullSolution]

NoReply == [code |-> "None", solution |-> NullSolution]

\* FilterTimeLocked that erases an output whose evaluation fails as if it
\* were locked and goes on.
FilterTimeLockedSkippingFailures(outputs) ==
    LET F[i \in 0..Len(outputs)] ==
            IF i = 0 THEN [code |-> "Valid", out |-> <<>>]
            ELSE LET prev == F[i - 1]
                     r == IsTimeLocked(outputs[i].txhash)
                 IN  IF ~r.ok \/ r.locked THEN prev
                     ELSE [prev EXCEPT !.out = Append(prev.out, outputs[i])]
    IN  F[Len(outputs)]

\* The loop "Filter out utxos that are currently time-locked": the first
\* evaluation failure ends the request, a locked output is erased.
FilterTimeLocked(outputs) ==
    LET F[i \in 0..Len(outputs)] ==
            IF i = 0 THEN [code |-> "Valid", out |-> <<>>]
            ELSE LET prev == F[i - 1]
                     r == IsTimeLocked(outputs[i].txhash)
                 IN  IF prev.code # "Valid" THEN prev
                     ELSE IF ~r.ok THEN [code |-> r.code, out |-> <<>>]
                     ELSE IF r.locked THEN prev
                     ELSE [prev EXCEPT !.out = Append(prev.out, outputs[i])]
    IN  F[Len(outputs)]

\* amountSortHTL
amountSortHTL(a, b) == a.satoshis > b.satoshis

\* SliceOrders that leaves the slice unsorted in deterministic mode.
SliceOrdersUnsorted(outputs, fRandom) == Orders(outputs)

\* std::random_shuffle yields any order; std::sort with amountSortHTL yields
\* any order in which no later element is greater than an earlier one.
SliceOrders(outputs, fRandom) ==
    IF fRandom THEN Orders(outputs)
    ELSE {p \in Orders(outputs) :
            \A i, j \in 1..Len(p) : i < j => ~amountSortHTL(p[j], p[i])}

\* Eligible without the confirmations test of instantpay requests.
EligibleWithoutConfirmations(utxo, nHeight, fInstantPay) == ~InSpentIndex(utxo)

\* The test guarding currentSolution.AddUtxo in the candidate loop.
Eligible(utxo, nHeight, fInstantPay) ==
    /\ ~InSpentIndex(utxo)
    /\ (~fInstantPay
        \/ (fInstantPay /\ (nHeight - utxo.nBlockHeight + 1) >= INSTANTSEND_CONFIRMATIONS_REQUIRED))

\* currentSolution.amount >= expectedAmount + currentSolution.fee
Satisfying(s, expectedAmount) == s.amount >= expectedAmount + s.fee

\* WithChange that forgets the fee.
WithChangeNoFee(s, expectedAmount) ==
    [s EXCEPT !.change = s.amount - expectedAmount]

\* The change set on a satisfying solution.
WithChange(s, expectedAmount) ==
    IF s.amount = expectedAmount + s.fee
    THEN [s EXCEPT !.change = 0]
    ELSE [s EXCEPT !.change = s.amount - expectedAmount - s.fee]

\* bestSolution.IsNull() || (!fRandom && current.size < best.size)
Improves(current, best, fRandom) ==
    IsNull(best) \/ (~fRandom /\ Len(current.vecUtxos) < Len(best.vecUtxos))

\* SelectStart whose first slice is slice 0 whatever GetRand returned.
SelectStartFromFirstSlice ==
    /\ sel.pc = "idle"
    /\ LET nUtxoCount == GetUTXOCount
           nPages == (nUtxoCount \div nUtxosSlice)
                     + (IF nUtxoCount % nUtxosSlice # 0 THEN 1 ELSE 0)
       IN  IF nUtxoCount = 0
           THEN /\ sel' = [sel EXCEPT !.pc = "done"]
                /\ selReply' = [code |-> "NoUtxosAvailble", solution |-> NullSolution]
           ELSE /\ \E nPageStart \in 0..(nPages - 1) :
                      sel' = [sel EXCEPT !.pc = "sliceTop",
                                         !.nUtxoCount = nUtxoCount,
                                         !.nPages = nPages,
                                         !.nPageStart = nPageStart,
                                         !.nPageCurrent = 0,
                                         !.nHeight = chainTip.height]
                /\ UNCHANGED selReply
    /\ UNCHANGED <<chainVars, selReq, timeUp, selFetched, nonSelVars>>

\* SelectStart without the test of the count: an empty index is scanned as
\* no slice at all and found insufficient.
SelectStartNoCountTest ==
    /\ sel.pc = "idle"
    /\ LET nUtxoCount == GetUTXOCount
           nPages == (nUtxoCount \div nUtxosSlice)
                     + (IF nUtxoCount % nUtxosSlice # 0 THEN 1 ELSE 0)
       IN  IF nUtxoCount = 0
           THEN /\ sel' = [sel EXCEPT !.pc = "done"]
                /\ selReply' = [code |-> "BalanceInsufficient", solution |-> NullSolution]
           ELSE /\ \E nPageStart \in 0..(nPages - 1) :
                      sel' = [sel EXCEPT !.pc = "sliceTop",
                                         !.nUtxoCount = nUtxoCount,
                                         !.nPages = nPages,
                                         !.nPageStart = nPageStart,
                                         !.nPageCurrent = nPageStart,
                                         !.nHeight = chainTip.height]
                /\ UNCHANGED selReply
    /\ UNCHANGED <<chainVars, selReq, timeUp, selFetched, nonSelVars>>

\* Entry of the handler up to the do-loop: count, page arithmetic, GetRand.
SelectStart ==
    /\ sel.pc = "idle"
    /\ LET nUtxoCount == GetUTXOCount
           nPages == (nUtxoCount \div nUtxosSlice)
                     + (IF nUtxoCount % nUtxosSlice # 0 THEN 1 ELSE 0)
       IN  IF nUtxoCount = 0
           THEN /\ sel' = [sel EXCEPT !.pc = "done"]
                /\ selReply' = [code |-> "NoUtxosAvailble", solution |-> NullSolution]
           ELSE /\ \E nPageStart \in 0..(nPages - 1) :
                      sel' = [sel EXCEPT !.pc = "sliceTop",
                                         !.nUtxoCount = nUtxoCount,
                                         !.nPages = nPages,
                                         !.nPageStart = nPageStart,
                                         !.nPageCurrent = nPageStart,
                                         !.nHeight = chainTip.height]
                /\ UNCHANGED selReply
    /\ UNCHANGED <<chainVars, selReq, timeUp, selFetched, nonSelVars>>

\* SliceTop whose time-lock filter erases the locked outputs from the
\* address's unspent index instead of from the fetched copy.
SliceTopErasingIndex ==
    /\ sel.pc = "sliceTop"
    /\ LET page == sel.nPageCurrent % sel.nPages
           nIndexOffset == page * nUtxosSlice
           nLimit == IF (sel.nUtxoCount % nUtxosSlice) # 0 /\ page = sel.nPages - 1
                     THEN sel.nUtxoCount % nUtxosSlice
                     ELSE nUtxosSlice
           filtered == FilterTimeLocked(GetUTXOs(nIndexOffset, nLimit))
       IN  IF ~selReq.fRandom /\ timeUp
           THEN /\ sel' = [sel EXCEPT !.pc = "after"]
                /\ UNCHANGED <<selReply, selFetched, utxoIndex>>
           ELSE IF filtered.code # "Valid"
           THEN /\ sel' = [sel EXCEPT !.pc = "done"]
                /\ selReply' = [code |-> filtered.code, solution |-> NullSolution]
                /\ selFetched' = Append(selFetched, <<page, <<>> >>)
                /\ UNCHANGED utxoIndex
           ELSE /\ \E ordered \in SliceOrders(filtered.out, selReq.fRandom) :
                      sel' = [sel EXCEPT !.unspentOutputs = ordered,
                                         !.it = 1,
                                         !.pc = IF Len(ordered) = 0 THEN "sliceEnd" ELSE "walk"]
                /\ selFetched' = Append(selFetched, <<page, filtered.out>>)
                /\ utxoIndex' = SubSeq(utxoIndex, 1, nIndexOffset) \o filtered.out
                                   \o SubSeq(utxoIndex, nIndexOffset + nLimit + 1, Len(utxoIndex))
                /\ UNCHANGED selReply
    /\ UNCHANGED <<chainTip, chainTx, spentIndex, addressIndex, mempoolIndex, instantLocks,
                   selReq, timeUp, nonSelVars>>

\* Top of one do-iteration: the deterministic-mode deadline check, the
\* fetch of the slice, the time-lock filter and the ordering.
SliceTop ==
    /\ sel.pc = "sliceTop"
    /\ LET page == sel.nPageCurrent % sel.nPages
           nIndexOffset == page * nUtxosSlice
           nLimit == IF (sel.nUtxoCount % nUtxosSlice) # 0 /\ page = sel.nPages - 1
                     THEN sel.nUtxoCount % nUtxosSlice
                     ELSE nUtxosSlice
           filtered == FilterTimeLocked(GetUTXOs(nIndexOffset, nLimit))
       IN  IF ~selReq.fRandom /\ timeUp
           THEN /\ sel' = [sel EXCEPT !.pc = "after"]
                /\ UNCHANGED <<selReply, selFetched>>
           ELSE IF filtered.code # "Valid"
           THEN /\ sel' = [sel EXCEPT !.pc = "done"]
                /\ selReply' = [code |-> filtered.code, solution |-> NullSolution]
                /\ selFetched' = Append(selFetched, <<page, <<>> >>)
           ELSE /\ \E ordered \in SliceOrders(filtered.out, selReq.fRandom) :
                      sel' = [sel EXCEPT !.unspentOutputs = ordered,
                                         !.it = 1,
                                         !.pc = IF Len(ordered) = 0 THEN "sliceEnd" ELSE "walk"]
                /\ selFetched' = Append(selFetched, <<page, filtered.out>>)
                /\ UNCHANGED selReply
    /\ UNCHANGED <<chainVars, selReq, timeUp, nonSelVars>>

\* One iteration of the candidate loop.
Candidate ==
    /\ sel.pc = "walk"
    /\ LET utxo == sel.unspentOutputs[sel.it]
           added == IF Eligible(utxo, sel.nHeight, selReq.fInstantPay)
                    THEN AddUtxo(sel.currentSolution, utxo)
                    ELSE sel.currentSolution
           priced == WithChange(added, selReq.expectedAmount)
       IN  IF timeUp
           THEN sel' = [sel EXCEPT !.fTimedOut = TRUE, !.pc = "sliceEnd"]
           ELSE IF Satisfying(added, selReq.expectedAmount)
           THEN IF Improves(priced, sel.bestSolution, selReq.fRandom)
                THEN sel' = [sel EXCEPT !.bestSolution = priced,
                                        !.currentSolution = NullSolution,
                                        !.pc = "sliceEnd"]
                ELSE sel' = [sel EXCEPT !.currentSolution = priced,
                                        !.pc = "sliceEnd"]
           ELSE sel' = [sel EXCEPT !.currentSolution = added,
                                   !.it = sel.it + 1,
                                   !.pc = IF sel.it = Len(sel.unspentOutputs)
                                          THEN "sliceEnd" ELSE "walk"]
    /\ UNCHANGED <<chainVars, selReq, timeUp, selReply, selFetched, nonSelVars>>

\* SliceEnd without the random-mode exit: a request with a best solution
\* goes on to the next slice like a deterministic one.
SliceEndNoRandomExit ==
    /\ sel.pc = "sliceEnd"
    /\ IF timeUp
       THEN sel' = [sel EXCEPT !.fTimedOut = TRUE, !.pc = "after"]
       ELSE sel' = [sel EXCEPT !.nPageCurrent = sel.nPageCurrent + 1,
                               !.pc = IF (sel.nPageCurrent + 1) % sel.nPages # sel.nPageStart
                                      THEN "sliceTop" ELSE "after"]
    /\ UNCHANGED <<chainVars, selReq, timeUp, selReply, selFetched, nonSelVars>>

\* After the candidate loop: the random-mode exit, the end-of-slice deadline
\* check and the loop condition (++nPageCurrent % nPages) != nPageStart.
SliceEnd ==
    /\ sel.pc = "sliceEnd"
    /\ IF ~IsNull(sel.bestSolution) /\ selReq.fRandom
       THEN sel' = [sel EXCEPT !.pc = "after"]
       ELSE IF timeUp
       THEN sel' = [sel EXCEPT !.fTimedOut = TRUE, !.pc = "after"]
       ELSE sel' = [sel EXCEPT !.nPageCurrent = sel.nPageCurrent + 1,
                               !.pc = IF (sel.nPageCurrent + 1) % sel.nPages # sel.nPageStart
                                      THEN "sliceTop" ELSE "after"]
    /\ UNCHANGED <<chainVars, selReq, timeUp, selReply, selFetched, nonSelVars>>

\* SelectFinish that answers TimedOut whenever the deadline was hit, with or
\* without a best solution.
SelectFinishTimedOutFirst ==
    /\ sel.pc = "after"
    /\ LET n == sel.nPageCurrent + 1
       IN  /\ sel' = [sel EXCEPT !.nPageCurrent = n, !.pc = "done"]
           /\ selReply' =
                IF n % sel.nPages = sel.nPageStart /\ IsNull(sel.bestSolution) /\ ~sel.fTimedOut
                THEN [code |-> "BalanceInsufficient", solution |-> NullSolution]
                ELSE IF IsNull(sel.bestSolution) \/ sel.fTimedOut
                THEN [code |-> "TimedOut", solution |-> NullSolution]
                ELSE [code |-> "Valid", solution |-> sel.bestSolution]
    /\ UNCHANGED <<chainVars, selReq, timeUp, selFetched, nonSelVars>>

\* After the loop: the two error exits and the reply.
SelectFinish ==
    /\ sel.pc = "after"
    /\ LET n == sel.nPageCurrent + 1
       IN  /\ sel' = [sel EXCEPT !.nPageCurrent = n, !.pc = "done"]
           /\ selReply' =
                IF n % sel.nPages = sel.nPageStart /\ IsNull(sel.bestSolution) /\ ~sel.fTimedOut
                THEN [code |-> "BalanceInsufficient", solution |-> NullSolution]
                ELSE IF IsNull(sel.bestSolution)
                THEN [code |-> "TimedOut", solution |-> NullSolution]
                ELSE [code |-> "Valid", solution |-> sel.bestSolution]
    /\ UNCHANGED <<chainVars, selReq, timeUp, selFetched, nonSelVars>>

\* The wall clock passes the deadline while the request runs.
ClockExpires ==
    /\ sel.pc \in {"sliceTop", "walk", "sliceEnd"}
    /\ ~timeUp
    /\ timeUp' = TRUE
    /\ UNCHANGED <<chainVars, selReq, sel, selReply, selFetched, nonSelVars>>

(***************************************************************************)
(* GetAddressesBalances and address_balances                               *)
(***************************************************************************)
\* GetAddressIndex: fails when the index has no record for the key.
HasAddressIndex(addrStr) == addrStr \in DOMAIN addressIndex

\* mempool.getAddressIndex
HasMempoolIndex(addrStr) == addrStr \in DOMAIN mempoolIndex

\* instantsend.IsLockedInstantSendTransaction
IsLockedInstantSendTransaction(txhash) == txhash \in instantLocks

\* ConfirmedStep with the balance fed like received: positive deltas only.
ConfirmedStepPositiveOnly(acc, value, fLocked) ==
    [acc EXCEPT !.locked = IF fLocked THEN acc.locked + value ELSE acc.locked,
                !.received = IF value > 0 THEN acc.received + value ELSE acc.received,
                !.balance = IF value > 0 THEN acc.balance + value ELSE acc.balance]

\* Body of the loop over addressIndex, after IsTimeLocked succeeded.
ConfirmedStep(acc, value, fLocked) ==
    [acc EXCEPT !.locked = IF fLocked THEN acc.locked + value ELSE acc.locked,
                !.received = IF value > 0 THEN acc.received + value ELSE acc.received,
                !.balance = acc.balance + value]

\* The loop over addressIndex; a failing IsTimeLocked ends the request.
ConfirmedLoop(deltas) ==
    LET F[i \in 0..Len(deltas)] ==
            IF i = 0
            THEN [code |-> "Valid", balance |-> 0, locked |-> 0, received |-> 0,
                  unconfirmed |-> 0]
            ELSE LET prev == F[i - 1]
                     r == IsTimeLocked(deltas[i].txhash)
                 IN  IF prev.code # "Valid" THEN prev
                     ELSE IF ~r.ok THEN [prev EXCEPT !.code = r.code]
                     ELSE ConfirmedStep(prev, deltas[i].value, r.locked)
    IN  F[Len(deltas)]

\* mapUnconfirmed[txhash] += amount
AddToMap(m, txhash, amount) ==
    IF txhash \in DOMAIN m
    THEN [m EXCEPT ![txhash] = @ + amount]
    ELSE m @@ (txhash :> amount)

\* MempoolStep that folds every mempool delta as if it were instant-locked.
MempoolStepAllInstant(st, delta) ==
    [st EXCEPT !.acc.received = IF delta.amount > 0 THEN @ + delta.amount ELSE @,
               !.acc.balance = @ + delta.amount]

\* Body of the loop over mempoolDelta: st holds the address's sums and the
\* request's mapUnconfirmed.
MempoolStep(st, delta) ==
    IF IsLockedInstantSendTransaction(delta.txhash)
    THEN [st EXCEPT !.acc.received = IF delta.amount > 0 THEN @ + delta.amount ELSE @,
                    !.acc.balance = @ + delta.amount]
    ELSE [st EXCEPT !.map = AddToMap(st.map, delta.txhash, delta.amount),
                    !.acc.unconfirmed = @ + delta.amount]

MempoolLoop(mdeltas, acc, map) ==
    LET F[i \in 0..Len(mdeltas)] ==
            IF i = 0 THEN [acc |-> acc, map |-> map]
            ELSE MempoolStep(F[i - 1], mdeltas[i])
    IN  F[Len(mdeltas)]

CAddressBalance(address, acc) ==
    [address |-> address, balance |-> acc.balance, locked |-> acc.locked,
     received |-> acc.received, unconfirmed |-> acc.unconfirmed]

\* BalancesStep that gives up on the list at its first per-address error.
BalancesStepFailFast(st, addrStr) ==
    IF st.fatal # "Valid" \/ Len(st.errors) # 0 THEN st
    ELSE IF ~GetIndexKey(addrStr)
    THEN [st EXCEPT !.errors = Append(@, [code |-> "InvalidSmartCashAddress", address |-> addrStr])]
    ELSE IF ~HasAddressIndex(addrStr)
    THEN [st EXCEPT !.errors = Append(@, [code |-> "AddressNotFound", address |-> addrStr])]
    ELSE LET confirmed == ConfirmedLoop(addressIndex[addrStr])
             merged == IF HasMempoolIndex(addrStr)
                       THEN MempoolLoop(mempoolIndex[addrStr], confirmed, st.mapUnconfirmed)
                       ELSE [acc |-> confirmed, map |-> st.mapUnconfirmed]
         IN  IF confirmed.code # "Valid"
             THEN [st EXCEPT !.fatal = confirmed.code]
             ELSE [st EXCEPT !.vecBalances = Append(@, CAddressBalance(addrStr, merged.acc)),
                             !.mapUnconfirmed = merged.map]

\* One iteration of the loop over vecAddr.
BalancesStep(st, addrStr) ==
    IF st.fatal # "Valid" THEN st
    ELSE IF ~GetIndexKey(addrStr)
    THEN [st EXCEPT !.errors = Append(@, [code |-> "InvalidSmartCashAddress", address |-> addrStr])]
    ELSE IF ~HasAddressIndex(addrStr)
    THEN [st EXCEPT !.errors = Append(@, [code |-> "AddressNotFound", address |-> addrStr])]
    ELSE LET confirmed == ConfirmedLoop(addressIndex[addrStr])
             merged == IF HasMempoolIndex(addrStr)
                       THEN MempoolLoop(mempoolIndex[addrStr], confirmed, st.mapUnconfirmed)
                       ELSE [acc |-> confirmed, map |-> st.mapUnconfirmed]
         IN  IF confirmed.code # "Valid"
             THEN [st EXCEPT !.fatal = confirmed.code]
             ELSE [st EXCEPT !.vecBalances = Append(@, CAddressBalance(addrStr, merged.acc)),
                             !.mapUnconfirmed = merged.map]

\* GetAddressesBalances: ret is its return value, reply what it wrote to the
\* request when it failed, the other fields its output parameters.
GetAddressesBalances(vecAddr) ==
    LET F[i \in 0..Len(vecAddr)] ==
            IF i = 0
            THEN [fatal |-> "Valid", errors |-> <<>>, vecBalances |-> <<>>,
                  mapUnconfirmed |-> <<>>]
            ELSE BalancesStep(F[i - 1], vecAddr[i])
        st == F[Len(vecAddr)]
        out == [vecBalances |-> st.vecBalances, mapUnconfirmed |-> st.mapUnconfirmed]
    IN  IF st.fatal # "Valid"
        THEN out @@ [ret |-> FALSE, reply |-> [status |-> st.fatal, errors |-> <<>>]]
        ELSE IF Len(st.errors) # 0
        THEN out @@ [ret |-> FALSE, reply |-> [status |-> "BAD_REQUEST", errors |-> st.errors]]
        ELSE IF Len(st.vecBalances) = 0
        THEN out @@ [ret |-> FALSE,
                     reply |-> [status |-> "INTERNAL_SERVER_ERROR", errors |-> <<>>]]
        ELSE out @@ [ret |-> TRUE, reply |-> [status |-> "OK", errors |-> <<>>]]

\* The loop of address_balances that drops repeated address strings.
UniqueAddresses(body) ==
    LET F[i \in 0..Len(body)] ==
            IF i = 0 THEN <<>>
            ELSE IF body[i] \in Range(F[i - 1]) THEN F[i - 1]
            ELSE Append(F[i - 1], body[i])
    IN  F[Len(body)]

\* One entry of the response array.
BalanceEntry(result, mapUnconfirmed) ==
    [address |-> result.address,
     received |-> result.received,
     sent |-> result.received - result.balance,
     total |-> result.balance,
     locked |-> result.locked,
     unlocked |-> result.balance - result.locked,
     delta |-> result.unconfirmed,
     transactions |-> mapUnconfirmed]

NoBalOut == [ret |-> FALSE, vecBalances |-> <<>>, mapUnconfirmed |-> <<>>]

NoBalReply == [status |-> "None", errors |-> <<>>, entries |-> <<>>]

address_balances ==
    /\ balReply.status = "None"
    /\ Len(balReq) # 0
    /\ LET r == GetAddressesBalances(UniqueAddresses(balReq))
       IN  /\ balOut' = [ret |-> r.ret, vecBalances |-> r.vecBalances,
                         mapUnconfirmed |-> r.mapUnconfirmed]
           /\ balReply' =
                IF ~r.ret
                THEN [status |-> r.reply.status, errors |-> r.reply.errors, entries |-> <<>>]
                ELSE [status |-> "OK", errors |-> <<>>,
                      entries |-> [i \in DOMAIN r.vecBalances |->
                                      BalanceEntry(r.vecBalances[i], r.mapUnconfirmed)]]
    /\ UNCHANGED <<chainVars, balReq, nonBalVars>>

(***************************************************************************)
(* GetAddressesTransactions and address_transactions                       *)
(***************************************************************************)
Reverse(seq) == [i \in 1..Len(seq) |-> seq[Len(seq) + 1 - i]]

Abs(x) == IF x < 0 THEN -x ELSE x

\* Position in addressTxs of the entry of txhash, 0 when there is none.
FindTx(addressTxs, txhash) ==
    IF \E i \in DOMAIN addressTxs : addressTxs[i].txhash = txhash
    THEN CHOOSE i \in DOMAIN addressTxs :
            /\ addressTxs[i].txhash = txhash
            /\ \A j \in 1..(i - 1) : addressTxs[j].txhash # txhash
    ELSE 0

\* Body of the while loop; row is the 0-based distance of tx from begin().
TransactionsStep(st, tx, row, nIndexOffset, pageSize) ==
    LET found == FindTx(st.addressTxs, tx.txhash)
    IN  IF found = 0
        THEN [addressTxs |->
                 IF row >= nIndexOffset /\ Len(st.addressTxs) < pageSize
                 THEN Append(st.addressTxs,
                             [txhash |-> tx.txhash, blockHeight |-> tx.blockHeight,
                              amount |-> tx.value])
                 ELSE st.addressTxs,
              totalNumTxs |-> st.totalNumTxs + 1]
        ELSE [st EXCEPT !.addressTxs[found].amount = @ + tx.value]

GetAddressesTransactions(addrStr, pageNum, pageSize, ascending) ==
    IF ~GetIndexKey(addrStr)
    THEN [code |-> "InvalidSmartCashAddress", addressTxs |-> <<>>, totalNumTxs |-> 0]
    ELSE IF ~HasAddressIndex(addrStr)
    THEN [code |-> "AddressNotFound", addressTxs |-> <<>>, totalNumTxs |-> 0]
    ELSE LET index == IF ascending THEN addressIndex[addrStr]
                      ELSE Reverse(addressIndex[addrStr])
             nIndexOffset == (pageNum - 1) * pageSize
             F[i \in 0..Len(index)] ==
                 IF i = 0 THEN [addressTxs |-> <<>>, totalNumTxs |-> 0]
                 ELSE TransactionsStep(F[i - 1], index[i], i - 1, nIndexOffset, pageSize)
         IN  [code |-> "Valid", addressTxs |-> F[Len(index)].addressTxs,
              totalNumTxs |-> F[Len(index)].totalNumTxs]

\* timestampSorta
timestampSorta(a, b) == a.time < b.time

\* GetAddressMempoolFull: one object per mempool delta of the address, in an
\* order std::sort may give with timestampSorta.
GetAddressMempoolFull(addrStr) ==
    IF ~GetIndexKey(addrStr) \/ ~HasMempoolIndex(addrStr)
    THEN [code |-> "AddressNotFound", results |-> {}]
    ELSE [code |-> "Valid",
          results |->
             {[i \in DOMAIN p |->
                 [source |-> "mempool", txhash |-> p[i].txhash, blockHeight |-> -1,
                  amount |-> 0, direction |-> "Any"]] :
              p \in {q \in Orders(mempoolIndex[addrStr]) :
                       \A i, j \in 1..Len(q) : i < j => ~timestampSorta(q[j], q[i])}}]

\* The loop over vecResult: the direction filter, the block read, the entry.
TransactionEntries(vecResult, direction) ==
    LET F[i \in 0..Len(vecResult)] ==
            IF i = 0 THEN [code |-> "Valid", transactions |-> <<>>]
            ELSE LET prev == F[i - 1]
                     e == vecResult[i]
                     txDirection == IF e.amount > 0 THEN "Received" ELSE "Sent"
                 IN  IF prev.code # "Valid" THEN prev
                     ELSE IF direction # "Any" /\ direction # txDirection THEN prev
                     ELSE IF ~chainTx[e.txhash].readable
                     THEN [code |-> "BlockNotFound", transactions |-> <<>>]
                     ELSE [prev EXCEPT !.transactions =
                             Append(@, [source |-> "index", txhash |-> e.txhash,
                                        blockHeight |-> e.blockHeight,
                                        amount |-> Abs(e.amount),
                                        direction |-> txDirection])]
    IN  F[Len(vecResult)]

\* push_back of each mempool object when ascending, insert at 0 otherwise.
MergeMempool(transactions, result, fAsc) ==
    IF fAsc THEN transactions \o result ELSE Reverse(result) \o transactions

\* int nPages = totalNumTxs / nPageSize;
\* if (totalNumTxs % nPageSize || (totalNumTxs < nPageSize)) nPages++;
PageCount(totalNumTxs, nPageSize) ==
    (totalNumTxs \div nPageSize)
    + (IF totalNumTxs % nPageSize # 0 \/ totalNumTxs < nPageSize THEN 1 ELSE 0)

TxError(code) == [status |-> code, count |-> 0, pages |-> 0, page |-> 0, data |-> <<>>]

address_transactions ==
    \E nPageNumber \in (1..MaxPageNumber) \ DOMAIN txLog :
       LET r == GetAddressesTransactions(txReq.address, nPageNumber, txReq.pageSize,
                                         txReq.ascending)
           entries == TransactionEntries(r.addressTxs, txReq.direction)
           mem == GetAddressMempoolFull(txReq.address)
       IN  /\ \E result \in (IF mem.code = "Valid" THEN mem.results ELSE {<<>>}) :
                LET totalNumTxs == r.totalNumTxs + Len(result)
                    nPages == PageCount(totalNumTxs, txReq.pageSize)
                    reply ==
                       IF r.code # "Valid" THEN TxError(r.code)
                       ELSE IF r.totalNumTxs < 1 THEN TxError("PageOutOfRange")
                       ELSE IF entries.code # "Valid" THEN TxError(entries.code)
                       ELSE IF mem.code # "Valid" THEN TxError(mem.code)
                       ELSE IF nPageNumber > nPages THEN TxError("PageOutOfRange")
                       ELSE [status |-> "OK", count |-> totalNumTxs, pages |-> nPages,
                             page |-> nPageNumber,
                             data |-> MergeMempool(entries.transactions, result,
                                                   txReq.ascending)]
                IN  txLog' = txLog @@ (nPageNumber :> reply)
           /\ UNCHANGED <<chainVars, txReq, nonTxVars>>

(***************************************************************************)
(* address_utxos                                                           *)
(***************************************************************************)
\* GetAddressUnspent(start = lastIndex, offset, limit, reverse = true): the
\* same window taken from the last key backwards.
GetUTXOsReverse(offset, limit) ==
    LET index == Reverse(utxoIndex)
    IN  SubSeq(index, offset + 1, IF offset + limit <= Len(index)
                                  THEN offset + limit ELSE Len(index))

\* The loop over unspentOutputs: the first evaluation failure ends the
\* request, every other output is listed with inMempool and spendable.
ListedUtxos(outputs) ==
    LET F[i \in 0..Len(outputs)] ==
            IF i = 0 THEN [code |-> "Valid", utxos |-> <<>>]
            ELSE LET prev == F[i - 1]
                     r == IsTimeLocked(outputs[i].txhash)
                 IN  IF prev.code # "Valid" THEN prev
                     ELSE IF ~r.ok THEN [code |-> r.code, utxos |-> <<>>]
                     ELSE [prev EXCEPT !.utxos =
                             Append(@, [txid |-> outputs[i].txhash,
                                        index |-> outputs[i].index,
                                        value |-> outputs[i].satoshis,
                                        height |-> outputs[i].nBlockHeight,
                                        inMempool |-> InSpentIndex(outputs[i]),
                                        spendable |-> ~r.locked])]
    IN  F[Len(outputs)]

ListError(code) == [status |-> code, count |-> 0, pages |-> 0, page |-> 0, utxos |-> <<>>]

NoListReply == ListError("None")

address_utxos ==
    /\ listReply = NoListReply
    /\ listReq.pageSize >= 1
    /\ LET nUtxoCount == GetUTXOCount
           nPageSize == listReq.pageSize
           nPageNumber == listReq.pageNumber
           nPages == (nUtxoCount \div nPageSize)
                     + (IF nUtxoCount % nPageSize # 0 THEN 1 ELSE 0)
           nIndexOffset == (nPageNumber - 1) * nPageSize
           nLimit == IF (nUtxoCount % nPageSize) # 0 /\ nPageNumber = nPages
                     THEN nUtxoCount % nPageSize ELSE nPageSize
           unspentOutputs == IF listReq.ascending THEN GetUTXOs(nIndexOffset, nLimit)
                             ELSE GetUTXOsReverse(nIndexOffset, nLimit)
           listed == ListedUtxos(unspentOutputs)
       IN  listReply' =
              IF nUtxoCount = 0 THEN ListError("NoUtxosAvailble")
              ELSE IF nPageNumber > nPages THEN ListError("PageOutOfRange")
              ELSE IF listed.code # "Valid" THEN ListError(listed.code)
              ELSE [status |-> "OK", count |-> nUtxoCount, pages |-> nPages,
                    page |-> nPageNumber, utxos |-> listed.utxos]
    /\ UNCHANGED <<chainVars, listReq, nonListVars>>

ListIdle ==
    /\ listReq = [pageNumber |-> 1, pageSize |-> 0, ascending |-> FALSE]
    /\ listReply = NoListReply

(***************************************************************************)
(* CalculateFee applied on its own                                         *)
(***************************************************************************)
\* feeOut is -1 until CalculateFee has returned.
FeeIdle == feeIn = 0 /\ feeOut = -1

FeeCall ==
    /\ feeIn >= 1
    /\ feeOut = -1
    /\ feeOut' = CalculateFee(feeIn)
    /\ UNCHANGED <<chainVars, nonFeeVars, feeIn>>

(***************************************************************************)
(* IsTimeLocked applied on its own                                         *)
(***************************************************************************)
NoLockOut == [ok |-> FALSE, code |-> "None", locked |-> FALSE]

TimeLockIdle == lockIn = "t1" /\ lockOut = NoLockOut

IsTimeLockedCall ==
    /\ lockOut = NoLockOut
    /\ lockOut' = IsTimeLocked(lockIn)
    /\ UNCHANGED <<chainVars, nonLockVars, lockIn>>

(***************************************************************************)
(* Specifications                                                          *)
(***************************************************************************)
SelectIdle ==
    /\ selReq = [expectedAmount |-> 1, fRandom |-> TRUE, fInstantPay |-> FALSE]
    /\ sel = SelIdle /\ timeUp = FALSE /\ selReply = NoReply /\ selFetched = <<>>

BalancesIdle == balReq = <<>> /\ balOut = NoBalOut /\ balReply = NoBalReply

TransactionsIdle ==
    /\ txReq = [address |-> "A1", pageSize |-> 1, ascending |-> FALSE, direction |-> "Any"]
    /\ txLog = <<>>

\* Selection requests against every ledger of the bounds.
InitSelect ==
    /\ InitChain
    /\ \/ /\ \E S \in SUBSET (1..Len(UtxoPool)) :
                /\ Cardinality(S) <= MaxUtxos
                /\ utxoIndex = PickOrdered(UtxoPool, S)
          /\ selReq \in [expectedAmount : ExpectedAmounts, fRandom : BOOLEAN,
                          fInstantPay : BOOLEAN]
       \/ /\ utxoIndex \in Orders(ScenarioUtxos)
          /\ selReq \in [expectedAmount : {600000000}, fRandom : BOOLEAN,
                          fInstantPay : BOOLEAN]
       \/ /\ utxoIndex = DustUtxos
          /\ selReq \in [expectedAmount : {1300000}, fRandom : BOOLEAN,
                          fInstantPay : {FALSE}]
    /\ spentIndex \in SpentIndexes
    /\ addressIndex = <<>> /\ mempoolIndex = <<>> /\ instantLocks = {}
    /\ sel = SelIdle /\ timeUp = FALSE /\ selReply = NoReply /\ selFetched = <<>>
    /\ BalancesIdle
    /\ TransactionsIdle
    /\ FeeIdle
    /\ TimeLockIdle
    /\ ListIdle

NextSelect ==
    \/ SelectStart
    \/ SliceTop
    \/ Candidate
    \/ SliceEnd
    \/ SelectFinish
    \/ ClockExpires

SpecSelect == InitSelect /\ [][NextSelect]_vars

\* The steps of the handler itself, without the clock.
SelectStep == SelectStart \/ SliceTop \/ Candidate \/ SliceEnd \/ SelectFinish

\* Selection requests on an empty index, on one of two slices and on one of
\* seven outputs.
InitSelectFair ==
    /\ chainTip = [hasTip |-> TRUE, height |-> 4, mtp |-> 500000000, now |-> 500000050]
    /\ chainTx = ChainTxs
    /\ utxoIndex \in {<<>>, SubSeq(UtxoPool, 1, 4), UtxoPool \o SubSeq(DustUtxos, 1, 1)}
    /\ selReq \in [expectedAmount : ExpectedAmounts, fRandom : BOOLEAN,
                    fInstantPay : BOOLEAN]
    /\ spentIndex \in SpentIndexes
    /\ addressIndex = <<>> /\ mempoolIndex = <<>> /\ instantLocks = {}
    /\ sel = SelIdle /\ timeUp = FALSE /\ selReply = NoReply /\ selFetched = <<>>
    /\ BalancesIdle
    /\ TransactionsIdle
    /\ FeeIdle
    /\ TimeLockIdle
    /\ ListIdle

\* The handler runs on its worker thread without blocking: a step that can
\* be taken is taken.  Nothing is assumed of the clock.
SpecSelectFair == InitSelectFair /\ [][NextSelect]_vars /\ WF_vars(SelectStep)

\* Balance requests against every ledger of the bounds.
InitBalances ==
    /\ InitChain
    /\ utxoIndex = <<>> /\ spentIndex = {}
    /\ \E S \in SUBSET (1..Len(DeltaPool)) :
          /\ Cardinality(S) <= MaxDeltas
          /\ \/ addressIndex = [a \in {"A1"} |-> PickOrdered(DeltaPool, S)]
             \/ \E a2 \in IndexesOfA2 :
                   addressIndex = [a \in {"A1", "A2"} |->
                                     IF a = "A1" THEN PickOrdered(DeltaPool, S) ELSE a2]
    /\ \E M \in SUBSET (1..Len(MempoolPool)) :
          mempoolIndex = [a \in {"A1", "A2"} |->
                            IF a = "A1" THEN PickOrdered(MempoolPool, M) ELSE MempoolOfA2]
    /\ instantLocks \in InstantLockSets
    /\ SelectIdle
    /\ balReq \in UNION {[1..n -> Addresses] : n \in 1..MaxAddrs}
    /\ balOut = NoBalOut /\ balReply = NoBalReply
    /\ TransactionsIdle
    /\ FeeIdle
    /\ TimeLockIdle
    /\ ListIdle

NextBalances == address_balances

SpecBalances == InitBalances /\ [][NextBalances]_vars

\* Transaction listings of A1 against every ledger of the bounds.
InitTransactions ==
    /\ chainTip = [height |-> 12, hasTip |-> TRUE, mtp |-> 500000200, now |-> 500000250]
    /\ chainTx = ChainTxs
    /\ utxoIndex = <<>> /\ spentIndex = {} /\ instantLocks = {}
    /\ \E S \in SUBSET (1..Len(DeltaPool)) :
          /\ Cardinality(S) <= MaxDeltas
          /\ addressIndex = [a \in {"A1"} |-> PickOrdered(DeltaPool, S)]
    /\ \E M \in SUBSET (1..Len(MempoolPool)) :
          mempoolIndex = [a \in {"A1"} |-> PickOrdered(MempoolPool, M)]
    /\ SelectIdle
    /\ BalancesIdle
    /\ txReq \in [address : {"A1"}, pageSize : 1..MaxPageSize, ascending : BOOLEAN,
                  direction : {"Any", "Received", "Sent"}]
    /\ txLog = <<>>
    /\ FeeIdle
    /\ TimeLockIdle
    /\ ListIdle

NextTransactions == address_transactions

SpecTransactions == InitTransactions /\ [][NextTransactions]_vars

InitFee ==
    /\ InitChain
    /\ utxoIndex = <<>> /\ spentIndex = {}
    /\ addressIndex = <<>> /\ mempoolIndex = <<>> /\ instantLocks = {}
    /\ SelectIdle
    /\ BalancesIdle
    /\ TransactionsIdle
    /\ feeIn \in 1..MaxFeeInputs
    /\ feeOut = -1
    /\ TimeLockIdle
    /\ ListIdle

NextFee == FeeCall

SpecFee == InitFee /\ [][NextFee]_vars

\* Chain tips and lock values around both boundaries of IsTimeLocked.  A
\* block can only be read from a chain that has a tip, so every tip here
\* has one.
TimeLockTips ==
    [height : {0, 4, 10}, hasTip : {TRUE},
     mtp : {500000000, 500000100, 500000200}, now : {500000250}]

LockValues ==
    {0, 1, 4, 5, 10, 11, 499999999, 500000000, 500000100, 500000101, 500000300}

InitTimeLock ==
    /\ chainTip \in TimeLockTips
    /\ lockIn \in {"t1", "t3"}
    /\ \E r \in [readable : BOOLEAN, found : BOOLEAN, vout : BOOLEAN,
                  nLockTime : LockValues] :
          chainTx = [t \in TxIds |-> IF t = lockIn THEN r ELSE ChainTxs[t]]
    /\ utxoIndex = <<>> /\ spentIndex = {}
    /\ addressIndex = <<>> /\ mempoolIndex = <<>> /\ instantLocks = {}
    /\ SelectIdle
    /\ BalancesIdle
    /\ TransactionsIdle
    /\ FeeIdle
    /\ lockOut = NoLockOut
    /\ ListIdle

NextTimeLock == IsTimeLockedCall

SpecTimeLock == InitTimeLock /\ [][NextTimeLock]_vars

\* Requests of every kind against one ledger: an address with two slices
\* of unspent outputs, a confirmed history and pending transactions.
InitEngine ==
    /\ chainTip = [height |-> 4, hasTip |-> TRUE, mtp |-> 500000000, now |-> 500000050]
    /\ chainTx = ChainTxs
    /\ utxoIndex \in {<<>>, SubSeq(UtxoPool, 1, 4)}
    /\ spentIndex = {<<"t1", 1>>}
    /\ addressIndex = [a \in {"A1"} |-> SubSeq(DeltaPool, 1, 4)]
    /\ mempoolIndex = [a \in {"A1"} |-> SubSeq(MempoolPool, 1, 2)]
    /\ instantLocks = {"m1"}
    /\ selReq \in [expectedAmount : {400000}, fRandom : BOOLEAN, fInstantPay : {FALSE}]
    /\ sel = SelIdle /\ timeUp = FALSE /\ selReply = NoReply /\ selFetched = <<>>
    /\ balReq \in {<<"A1">>, <<"A1", "BAD">>}
    /\ balOut = NoBalOut /\ balReply = NoBalReply
    /\ txReq = [address |-> "A1", pageSize |-> MaxPageSize, ascending |-> TRUE,
                direction |-> "Any"]
    /\ txLog = <<>>
    /\ FeeIdle
    /\ TimeLockIdle
    /\ listReq \in [pageNumber : {1, 3}, pageSize : {MaxPageSize}, ascending : {FALSE}]
    /\ listReply = NoListReply

NextEngine ==
    \/ NextSelect
    \/ NextBalances
    \/ NextTransactions
    \/ address_utxos

SpecEngine == InitEngine /\ [][NextEngine]_vars

\* The ledgers in which the block of one transaction cannot be read, or does
\* not hold the transaction, next to the ledger without such a fault.
FaultyChainTxs ==
    {ChainTxs}
    \cup {[ChainTxs EXCEPT ![t].readable = FALSE] : t \in {"t1", "t3", "t5"}}
    \cup {[ChainTxs EXCEPT ![t].found = FALSE] : t \in {"t1", "t3", "t5"}}

\* A selection and a balances request on an address whose outputs and deltas
\* refer to the transactions of a faulty ledger.
InitLockFailure ==
    /\ chainTip = [hasTip |-> TRUE, height |-> 4, mtp |-> 500000000, now |-> 500000050]
    /\ chainTx \in FaultyChainTxs
    /\ utxoIndex = SubSeq(UtxoPool, 1, 4)
    /\ spentIndex = {}
    /\ addressIndex = [a \in {"A1", "A2"} |->
                         IF a = "A1" THEN DeltaPool
                         ELSE <<[txhash |-> "t5", blockHeight |-> 4, value |-> 300]>>]
    /\ mempoolIndex = [a \in {"A1", "A2"} |->
                         IF a = "A1" THEN SubSeq(MempoolPool, 1, 2) ELSE MempoolOfA2]
    /\ instantLocks = {"m1"}
    /\ selReq \in [expectedAmount : ExpectedAmounts, fRandom : BOOLEAN,
                    fInstantPay : {FALSE}]
    /\ sel = SelIdle /\ timeUp = FALSE /\ selReply = NoReply /\ selFetched = <<>>
    /\ balReq \in UNION {[1..n -> Addresses] : n \in 1..MaxAddrs}
    /\ balOut = NoBalOut /\ balReply = NoBalReply
    /\ TransactionsIdle
    /\ FeeIdle
    /\ TimeLockIdle
    /\ ListIdle

NextLockFailure == NextSelect \/ NextBalances

SpecLockFailure == InitLockFailure /\ [][NextLockFailure]_vars

(***************************************************************************)
(* The ledger changing under a running selection                           *)
(***************************************************************************)
\* A block connected while the request runs gives the address an output
\* whose key sorts before the ones it holds: every output moves one
\* position up in the index.
IndexGainsOutput ==
    /\ sel.pc = "sliceTop"
    /\ \A i \in DOMAIN utxoIndex : utxoIndex[i].txhash # "d1"
    /\ utxoIndex' = SubSeq(DustUtxos, 1, 1) \o utxoIndex
    /\ UNCHANGED <<chainTip, chainTx, spentIndex, addressIndex, mempoolIndex, instantLocks,
                   selVars, nonSelVars>>

\* A block connected while the request runs spends one output of the
\* address: the outputs after it move one position down in the index.
IndexLosesOutput ==
    /\ sel.pc = "sliceTop"
    /\ Len(utxoIndex) >= sel.nUtxoCount
    /\ \E i \in DOMAIN utxoIndex :
          utxoIndex' = SubSeq(utxoIndex, 1, i - 1) \o SubSeq(utxoIndex, i + 1, Len(utxoIndex))
    /\ UNCHANGED <<chainTip, chainTx, spentIndex, addressIndex, mempoolIndex, instantLocks,
                   selVars, nonSelVars>>

\* A transaction accepted to the mempool while the request runs spends one
\* output of the address.
MempoolSpends ==
    /\ sel.pc \in {"sliceTop", "walk"}
    /\ spentIndex = {}
    /\ \E i \in DOMAIN utxoIndex :
          spentIndex' = {<<utxoIndex[i].txhash, utxoIndex[i].index>>}
    /\ UNCHANGED <<chainTip, chainTx, utxoIndex, addressIndex, mempoolIndex, instantLocks,
                   selVars, nonSelVars>>

\* Selection requests on indexes of two slices.
InitSelectLive ==
    /\ chainTip = [hasTip |-> TRUE, height |-> 4, mtp |-> 500000000, now |-> 500000050]
    /\ chainTx = ChainTxs
    /\ utxoIndex \in {SubSeq(UtxoPool, 1, 4), UtxoPool}
    /\ spentIndex = {}
    /\ addressIndex = <<>> /\ mempoolIndex = <<>> /\ instantLocks = {}
    /\ selReq \in [expectedAmount : ExpectedAmounts, fRandom : BOOLEAN,
                    fInstantPay : {FALSE}]
    /\ sel = SelIdle /\ timeUp = FALSE /\ selReply = NoReply /\ selFetched = <<>>
    /\ BalancesIdle
    /\ TransactionsIdle
    /\ FeeIdle
    /\ TimeLockIdle
    /\ ListIdle

NextSelectLive ==
    \/ NextSelect
    \/ IndexGainsOutput
    \/ IndexLosesOutput
    \/ MempoolSpends

SpecSelectLive == InitSelectLive /\ [][NextSelectLive]_vars

(***************************************************************************)
(* Properties of address_utxos_amount                                      *)
(***************************************************************************)
SumSatoshis(T) ==
    LET F[U \in SUBSET T] ==
            IF U = {} THEN 0
            ELSE LET u == CHOOSE x \in U : TRUE IN u.satoshis + F[U \ {u}]
    IN  F[T]

\* The request ended with one of the selection's own answers.
SelectAnswered ==
    sel.pc = "done" /\ selReply.code \in {"Valid", "BalanceInsufficient", "TimedOut"}

\* Every slice was fetched: the scan came back to its start slice.
FullyScanned == Len(selFetched) = sel.nPages

\* C1: a request that fetched every slice once, found no solution and never
\* saw the deadline pass answers BalanceInsufficient, whatever the number
\* of slices.
C1_FullScanBalanceInsufficient ==
    (SelectAnswered /\ FullyScanned /\ IsNull(sel.bestSolution) /\ ~timeUp)
        => selReply.code = "BalanceInsufficient"

\* C2: a request that found no solution and whose deadline passed before
\* every slice was fetched answers TimedOut, in both modes.
C2_DeadlineTimedOut ==
    (SelectAnswered /\ timeUp /\ ~FullyScanned /\ IsNull(sel.bestSolution))
        => selReply.code = "TimedOut"

\* The eligible outputs of the slices the request fetched.
ScannedEligible ==
    {u \in UNION {Range(selFetched[i][2]) : i \in DOMAIN selFetched} :
        Eligible(u, sel.nHeight, selReq.fInstantPay)}

\* C3: in deterministic mode no satisfying subset of the eligible outputs of
\* the fetched slices has fewer inputs than the returned solution.
C3_DeterministicMinimal ==
    (sel.pc = "done" /\ selReply.code = "Valid" /\ ~selReq.fRandom)
        => \A T \in SUBSET ScannedEligible :
              (T # {} /\ SumSatoshis(T) >= selReq.expectedAmount + CalculateFee(Cardinality(T)))
                  => Cardinality(T) >= Len(selReply.solution.vecUtxos)

\* C7: a returned solution has change = amount - requested - fee >= 0, and
\* its amount covers the requested amount plus the fee of its input count.
C7_ChangeNonNegative ==
    (sel.pc = "done" /\ selReply.code = "Valid")
        => LET s == selReply.solution
           IN  /\ s.change = s.amount - selReq.expectedAmount - s.fee
               /\ s.change >= 0
               /\ s.amount >= selReq.expectedAmount + CalculateFee(Len(s.vecUtxos))

C7_Witness ==
    /\ sel.pc = "done" /\ selReply.code = "Valid"
    /\ Len(selReply.solution.vecUtxos) >= 2
    /\ selReply.solution.change > 0

\* The satoshis of the outputs of a solution.
SolutionAmounts(s) == {s.vecUtxos[i].satoshis : i \in DOMAIN s.vecUtxos}

\* C11: in deterministic mode, on the address whose unspent outputs are
\* 500000000, 300000000 and 100000000, a request for 600000000 that the
\* deadline does not interrupt answers the two inputs 500000000 and
\* 300000000, the fee of two inputs and change 800000000 - 600000000 - fee.
C11_ScenarioTwoLargest ==
    (/\ sel.pc = "done"
     /\ ~selReq.fRandom
     /\ Range(utxoIndex) = Range(ScenarioUtxos)
     /\ selReq.expectedAmount = 600000000
     /\ ~timeUp)
        => /\ selReply.code = "Valid"
           /\ Len(selReply.solution.vecUtxos) = 2
           /\ SolutionAmounts(selReply.solution) = {500000000, 300000000}
           /\ selReply.solution.amount = 800000000
           /\ selReply.solution.fee = CalculateFee(2)
           /\ selReply.solution.change = 800000000 - 600000000 - CalculateFee(2)

\* The scenario answered, from an index that does not hold the outputs by
\* descending amount.
C11_Witness ==
    /\ sel.pc = "done" /\ ~selReq.fRandom /\ ~timeUp
    /\ utxoIndex = <<ScenarioUtxos[3], ScenarioUtxos[1], ScenarioUtxos[2]>>
    /\ selReq.expectedAmount = 600000000
    /\ selReply.code = "Valid"
    /\ selReply.solution.change = 199900000

\* C14: when the slice loop has ended with a best solution, whether by the
\* deadline, by the full scan or by the early accept of random mode, the
\* next step answers that solution and no error.
C14_BestSolutionReturned ==
    [][(sel.pc = "after" /\ ~IsNull(sel.bestSolution))
          => /\ sel'.pc = "done"
             /\ selReply'.code = "Valid"
             /\ selReply'.solution = sel.bestSolution]_vars

\* A deterministic request answered with its best solution after the
\* deadline was hit before every slice was fetched.
C14_Witness ==
    /\ sel.pc = "done" /\ ~selReq.fRandom
    /\ sel.fTimedOut /\ ~FullyScanned
    /\ ~IsNull(sel.bestSolution)
    /\ selReply.code = "Valid" /\ selReply.solution = sel.bestSolution

\* Sum of the satoshis of the outputs of a solution, in vector order.
SolutionSum(s) ==
    LET F[i \in 0..Len(s.vecUtxos)] ==
            IF i = 0 THEN 0 ELSE F[i - 1] + s.vecUtxos[i].satoshis
    IN  F[Len(s.vecUtxos)]

WellFormed(s) ==
    /\ s.amount = SolutionSum(s)
    /\ Len(s.vecUtxos) > 0 => s.fee = CalculateFee(Len(s.vecUtxos))

\* C17: at every point of a selection, in the running and in the best
\* solution the amount is the sum of the amounts of the selected outputs
\* and, when any is selected, the fee is CalculateFee of their number.
C17_SolutionWellFormed ==
    WellFormed(sel.currentSolution) /\ WellFormed(sel.bestSolution)

\* A best solution of ten inputs, priced at the fee of ten.
C17_Witness ==
    /\ Len(sel.bestSolution.vecUtxos) = 10
    /\ sel.bestSolution.fee = 200000
    /\ sel.bestSolution.amount = 1500000

\* C19: a request on an address whose unspent count is zero answers
\* NoUtxosAvailble and has fetched no slice.
C19_EmptyIndexNoUtxos ==
    (sel.pc # "idle" /\ GetUTXOCount = 0)
        => /\ sel.pc = "done"
           /\ selReply.code = "NoUtxosAvailble"
           /\ selFetched = <<>>

C19_Witness ==
    /\ GetUTXOCount = 0
    /\ sel.pc = "done" /\ selReply.code = "NoUtxosAvailble"

\* The running solution once the output under the iterator has been offered
\* to it.
OfferedSolution ==
    IF sel.pc = "walk" /\ sel.it \in DOMAIN sel.unspentOutputs
    THEN IF Eligible(sel.unspentOutputs[sel.it], sel.nHeight, selReq.fInstantPay)
         THEN AddUtxo(sel.currentSolution, sel.unspentOutputs[sel.it])
         ELSE sel.currentSolution
    ELSE sel.currentSolution

\* The step is the candidate step of the handler, taken before the deadline,
\* and it makes the running solution satisfying.
BecomesSatisfying ==
    /\ sel.pc = "walk" /\ ~timeUp
    /\ sel' # sel
    /\ Satisfying(OfferedSolution, selReq.expectedAmount)

\* C22: in deterministic mode, the step at which the running solution becomes
\* satisfying replaces the best solution exactly when there is none or the
\* running one has strictly fewer inputs, and in either case leaves the
\* running solution empty.
C22_DeterministicResetsRunning ==
    [][(~selReq.fRandom /\ BecomesSatisfying)
          => /\ sel'.bestSolution =
                   IF IsNull(sel.bestSolution)
                      \/ Len(OfferedSolution.vecUtxos) < Len(sel.bestSolution.vecUtxos)
                   THEN WithChange(OfferedSolution, selReq.expectedAmount)
                   ELSE sel.bestSolution
             /\ IsNull(sel'.currentSolution)]_vars

\* C23: in random mode the step at which the running solution becomes
\* satisfying makes it the best solution, and from then on the solutions
\* and the fetched slices never change, no slice is entered again and the
\* answer is that solution.
C23_RandomStopsAtFirst ==
    [][selReq.fRandom
          => /\ BecomesSatisfying
                  => /\ sel'.bestSolution = WithChange(OfferedSolution, selReq.expectedAmount)
                     /\ sel'.pc = "sliceEnd"
             /\ ~IsNull(sel.bestSolution)
                  => /\ sel'.bestSolution = sel.bestSolution
                     /\ sel'.currentSolution = sel.currentSolution
                     /\ selFetched' = selFetched
                     /\ sel'.pc \notin {"sliceTop", "walk"}
                     /\ sel'.pc = "done" => selReply'.solution = sel.bestSolution]_vars

\* A random request answered with a solution while slices and outputs of the
\* fetched slice were left unvisited.
C23_Witness ==
    /\ selReq.fRandom /\ ~timeUp
    /\ sel.pc = "done" /\ selReply.code = "Valid"
    /\ sel.nPages >= 2 /\ Len(selFetched) = 1
    /\ sel.it < Len(sel.unspentOutputs)

\* The slices fetched so far are slices nPageStart, nPageStart + 1, ... of
\* the nPages slices, modulo nPages, none of them twice; a request answered
\* without a solution and without the deadline passing fetched them all.
FetchedInWrapAroundOrder ==
    /\ Len(selFetched) <= sel.nPages
    /\ \A i \in DOMAIN selFetched :
          selFetched[i][1] = (sel.nPageStart + i - 1) % sel.nPages
    /\ (sel.pc = "done" /\ sel.nUtxoCount > 0 /\ IsNull(sel.bestSolution) /\ ~timeUp)
          => Len(selFetched) = sel.nPages

\* C26: every request is answered, and the slices it fetches are distinct
\* slices in wrap-around order from the random start slice, all of them when
\* no solution is found and the deadline does not pass.
C26_SliceLoopTerminates ==
    /\ []FetchedInWrapAroundOrder
    /\ <>(sel.pc = "done")

\* A request without solution that started at the last of several slices,
\* wrapped around to slice 0 and fetched them all.
C26_Witness ==
    /\ sel.pc = "done" /\ IsNull(sel.bestSolution) /\ ~timeUp
    /\ sel.nPages >= 2 /\ sel.nPageStart = sel.nPages - 1
    /\ Len(selFetched) = sel.nPages /\ selFetched[2][1] = 0

\* C24: on a ledger that does not change during the request, no output of
\* the returned solution is time-locked, none is in the mempool's spent
\* index and, when instantpay is requested, each has at least
\* INSTANTSEND_CONFIRMATIONS_REQUIRED confirmations.
C24_ReturnedOutputsSpendable ==
    (sel.pc = "done" /\ selReply.code = "Valid")
        => \A i \in DOMAIN selReply.solution.vecUtxos :
              LET u == selReply.solution.vecUtxos[i]
              IN  /\ ~IsTimeLocked(u.txhash).locked
                  /\ <<u.txhash, u.index>> \notin spentIndex
                  /\ selReq.fInstantPay
                        => chainTip.height - u.nBlockHeight + 1
                               >= INSTANTSEND_CONFIRMATIONS_REQUIRED

\* An instantpay request answered from an index that also holds a
\* time-locked output, a spent one and one with too few confirmations.
C24_Witness ==
    /\ sel.pc = "done" /\ selReply.code = "Valid" /\ selReq.fInstantPay
    /\ \E i \in DOMAIN utxoIndex : IsTimeLocked(utxoIndex[i].txhash).locked
    /\ \E i \in DOMAIN utxoIndex : <<utxoIndex[i].txhash, utxoIndex[i].index>> \in spentIndex
    /\ \E i \in DOMAIN utxoIndex :
          chainTip.height - utxoIndex[i].nBlockHeight + 1 < INSTANTSEND_CONFIRMATIONS_REQUIRED

(***************************************************************************)
(* Properties of GetAddressesBalances and address_balances                 *)
(***************************************************************************)
\* Sum of vals[i] over the positions i in P, in no particular order.
SumAt(P, vals) ==
    LET F[Q \in SUBSET P] ==
            IF Q = {} THEN 0
            ELSE LET i == CHOOSE x \in Q : TRUE IN vals[i] + F[Q \ {i}]
    IN  F[P]

Values(addrStr) == [i \in DOMAIN addressIndex[addrStr] |-> addressIndex[addrStr][i].value]

Amounts(addrStr) == [i \in DOMAIN mempoolIndex[addrStr] |-> mempoolIndex[addrStr][i].amount]

ConfirmedSum(addrStr) == SumAt(DOMAIN addressIndex[addrStr], Values(addrStr))

PositiveConfirmedSum(addrStr) ==
    SumAt({i \in DOMAIN addressIndex[addrStr] : Values(addrStr)[i] > 0}, Values(addrStr))

\* Mempool deltas of the address, instant-locked or not, of the txids T.
MempoolSum(addrStr, instant, T) ==
    LET m == mempoolIndex[addrStr]
    IN  SumAt({i \in DOMAIN m : /\ (m[i].txhash \in instantLocks) = instant
                                 /\ m[i].txhash \in T}, Amounts(addrStr))

PositiveInstantSum(addrStr) ==
    LET m == mempoolIndex[addrStr]
    IN  SumAt({i \in DOMAIN m : m[i].txhash \in instantLocks /\ m[i].amount > 0},
              Amounts(addrStr))

MempoolTxIds == {"m1", "m2"}

BalancesAnswered == balReply.status # "None"

\* The addresses of the request that resolve and have an index record.
ResolvableRequested ==
    {a \in Range(balReq) : GetIndexKey(a) /\ HasAddressIndex(a)}

\* C4: with a resolvable and an unresolvable address in the list, the
\* unresolvable one yields an InvalidSmartCashAddress error and the reply
\* still carries a snapshot of every resolvable address.
C4_PartialFailureDelivered ==
    (/\ BalancesAnswered
     /\ ResolvableRequested # {}
     /\ \E b \in Range(balReq) : ~GetIndexKey(b))
        => /\ \A b \in Range(balReq) :
                 ~GetIndexKey(b) =>
                     \E i \in DOMAIN balReply.errors :
                         /\ balReply.errors[i].code = "InvalidSmartCashAddress"
                         /\ balReply.errors[i].address = b
           /\ \A a \in ResolvableRequested :
                 \E i \in DOMAIN balReply.entries : balReply.entries[i].address = a

\* C9: the balance of every produced snapshot is the sum of the address's
\* confirmed deltas plus the sum of its instant-locked mempool deltas, and
\* the confirmed loop gives that sum in whatever order it meets the deltas.
C9_BalanceIsSum ==
    BalancesAnswered =>
        \A i \in DOMAIN balOut.vecBalances :
            LET b == balOut.vecBalances[i]
            IN  /\ b.balance = ConfirmedSum(b.address)
                                + MempoolSum(b.address, TRUE, MempoolTxIds)
                /\ \A p \in Orders(addressIndex[b.address]) :
                      ConfirmedLoop(p).balance = ConfirmedSum(b.address)

C9_Witness ==
    /\ BalancesAnswered
    /\ \E i \in DOMAIN balOut.vecBalances :
          LET b == balOut.vecBalances[i]
          IN  /\ Len(addressIndex[b.address]) >= 3
              /\ \E j \in DOMAIN addressIndex[b.address] : addressIndex[b.address][j].value < 0
              /\ MempoolSum(b.address, TRUE, MempoolTxIds) # 0
              /\ MempoolSum(b.address, FALSE, MempoolTxIds) # 0

\* The addresses whose snapshot was produced.
ProcessedAddresses == {balOut.vecBalances[i].address : i \in DOMAIN balOut.vecBalances}

\* C10: mempool deltas that are not instant-locked leave balance and
\* received alone: received is the positive confirmed and instant-locked
\* deltas, unconfirmed is the sum of the others, and mapUnconfirmed holds
\* their sum per txid over the processed addresses.
C10_NonInstantIsUnconfirmed ==
    BalancesAnswered =>
        /\ \A i \in DOMAIN balOut.vecBalances :
              LET b == balOut.vecBalances[i]
              IN  /\ b.received = PositiveConfirmedSum(b.address) + PositiveInstantSum(b.address)
                  /\ b.balance = ConfirmedSum(b.address)
                                  + MempoolSum(b.address, TRUE, MempoolTxIds)
                  /\ b.unconfirmed = MempoolSum(b.address, FALSE, MempoolTxIds)
        /\ \A t \in MempoolTxIds :
              LET touched == \E a \in ProcessedAddresses : \E j \in DOMAIN mempoolIndex[a] :
                                 mempoolIndex[a][j].txhash = t /\ t \notin instantLocks
                  S(a) == MempoolSum(a, FALSE, {t})
                  total == LET F[Q \in SUBSET ProcessedAddresses] ==
                                   IF Q = {} THEN 0
                                   ELSE LET a == CHOOSE x \in Q : TRUE
                                        IN  S(a) + F[Q \ {a}]
                           IN  F[ProcessedAddresses]
              IN  /\ (t \in DOMAIN balOut.mapUnconfirmed) = touched
                  /\ touched => balOut.mapUnconfirmed[t] = total

\* One confirmed receive of 1000 and one mempool spend of -400 that is not
\* instant-locked: balance 1000, received 1000, unconfirmed -400.
C10_Witness ==
    /\ BalancesAnswered
    /\ "A1" \in DOMAIN addressIndex
    /\ addressIndex["A1"] = <<[txhash |-> "t1", blockHeight |-> 1, value |-> 1000]>>
    /\ mempoolIndex["A1"] = <<[txhash |-> "m1", index |-> 0, amount |-> -400, time |-> 20]>>
    /\ "m1" \notin instantLocks
    /\ \E i \in DOMAIN balOut.vecBalances :
          LET b == balOut.vecBalances[i]
          IN  /\ b.address = "A1"
              /\ b.balance = 1000 /\ b.received = 1000 /\ b.unconfirmed = -400

\* Every address of the request fails to resolve or has no index record.
AllAddressesError == ResolvableRequested = {}

\* C15 as claimed: when every address of the list produces an error, the
\* call fails with AddressNotFound, as its status or as the code of every
\* error it reports.
C15_AllErrorsAddressNotFound ==
    (BalancesAnswered /\ AllAddressesError)
        => \/ balReply.status = "AddressNotFound"
           \/ \A i \in DOMAIN balReply.errors : balReply.errors[i].code = "AddressNotFound"

\* C15 as amended: when every address of the list produces an error, the
\* call fails with a BAD_REQUEST reply that reports one error per distinct
\* address, in request order: InvalidSmartCashAddress for an address that
\* does not resolve, AddressNotFound for one the index has no record of.
C15_AllErrorsAggregated ==
    (BalancesAnswered /\ AllAddressesError)
        => LET unique == UniqueAddresses(balReq)
           IN  /\ ~balOut.ret
               /\ balReply.status = "BAD_REQUEST"
               /\ balReply.entries = <<>>
               /\ Len(balReply.errors) = Len(unique)
               /\ \A i \in DOMAIN unique :
                     /\ balReply.errors[i].address = unique[i]
                     /\ balReply.errors[i].code =
                           IF GetIndexKey(unique[i]) THEN "AddressNotFound"
                           ELSE "InvalidSmartCashAddress"

\* A request of one unresolvable address and one without index record.
C15_Witness ==
    /\ BalancesAnswered
    /\ balReq = <<"BAD", "A2">>
    /\ "A2" \notin DOMAIN addressIndex
    /\ Len(balReply.errors) = 2

\* The index of the address holds whole transactions in ledger order: every
\* spend follows the receive it spends and no row of a transaction is left
\* out.
WholeHistory(addrStr) ==
    \/ addrStr = "A2"
    \/ /\ addrStr = "A1"
       /\ Len(addressIndex["A1"]) \in {0, 2, 4, 5}
       /\ addressIndex["A1"] = SubSeq(DeltaPool, 1, Len(addressIndex["A1"]))

\* C18: in every produced snapshot the locked value is a portion of the
\* balance, 0 <= locked <= balance, for every history of confirmed deltas.
C18_LockedWithinBalance ==
    BalancesAnswered =>
        \A i \in DOMAIN balOut.vecBalances :
            LET b == balOut.vecBalances[i]
            IN  (WholeHistory(b.address) /\ mempoolIndex[b.address] = <<>>)
                    => (0 <= b.locked /\ b.locked <= b.balance)

\* Sum of the positive confirmed deltas of the address whose transaction is
\* time-locked at the chain tip.
LockedPositiveSum(addrStr) ==
    SumAt({i \in DOMAIN addressIndex[addrStr] :
              /\ Values(addrStr)[i] > 0
              /\ IsTimeLocked(addressIndex[addrStr][i].txhash).locked},
          Values(addrStr))

\* C25: in every produced snapshot locked is the sum of exactly the positive
\* confirmed deltas that are time-locked; a negative delta of a time-locked
\* transaction does not change it.
C25_LockedIsPositiveLockedSum ==
    BalancesAnswered =>
        \A i \in DOMAIN balOut.vecBalances :
            LET b == balOut.vecBalances[i]
            IN  WholeHistory(b.address) => b.locked = LockedPositiveSum(b.address)

(***************************************************************************)
(* Properties of address_transactions                                      *)
(***************************************************************************)
\* The confirmed index of the listed address in the requested order.
RequestedIndex ==
    IF txReq.ascending THEN addressIndex[txReq.address]
    ELSE Reverse(addressIndex[txReq.address])

\* The txids of a sequence of rows or entries, each at its first sighting.
DistinctTxids(seq) ==
    LET F[i \in 0..Len(seq)] ==
            IF i = 0 THEN <<>>
            ELSE IF seq[i].txhash \in Range(F[i - 1]) THEN F[i - 1]
            ELSE Append(F[i - 1], seq[i].txhash)
    IN  F[Len(seq)]

Txids(seq) == [i \in DOMAIN seq |-> seq[i].txhash]

IsIndexEntry(e) == e.source = "index"

\* The confirmed entries of the reply logged for page p.
ConfirmedEntries(p) == SelectSeq(txLog[p].data, IsIndexEntry)

CeilDiv(a, b) == (a + b - 1) \div b

\* The txids of the confirmed entries of pages 1..n, concatenated.
ConcatPages(n) ==
    LET F[p \in 0..n] ==
            IF p = 0 THEN <<>> ELSE F[p - 1] \o Txids(ConfirmedEntries(p))
    IN  F[n]

\* C5: once pages 1..pageCount have been answered, their confirmed entries
\* concatenated are the distinct transactions of the address, each once, in
\* the requested order.
C5_PagesPartitionHistory ==
    (/\ txReq.direction = "Any"
     /\ 1 \in DOMAIN txLog
     /\ txLog[1].status = "OK"
     /\ \A p \in 1..CeilDiv(txLog[1].count, txReq.pageSize) : p \in DOMAIN txLog)
        => ConcatPages(CeilDiv(txLog[1].count, txReq.pageSize))
             = DistinctTxids(RequestedIndex)

\* C6: on every answered page the confirmed part of the count is the number
\* of distinct txids of the address's index deltas.
C6_TotalCountsDistinct ==
    \A p \in DOMAIN txLog :
        txLog[p].status = "OK"
            => txLog[p].count - Len(mempoolIndex[txReq.address])
                 = Len(DistinctTxids(RequestedIndex))

\* C13: every answered page reports pages = ceil(count / pageSize), and a
\* request for a page beyond the page count a listing of the address
\* reported (page pageCount + 1 in particular) fails with PageOutOfRange.
C13_BeyondPageCountFails ==
    \A q \in DOMAIN txLog :
        txLog[q].status = "OK"
            => /\ txLog[q].pages = CeilDiv(txLog[q].count, txReq.pageSize)
               /\ \A p \in DOMAIN txLog :
                     p > txLog[q].pages => txLog[p].status = "PageOutOfRange"

\* Sum of the confirmed deltas of the listed address that reference txhash.
NetAmount(txhash) ==
    LET index == addressIndex[txReq.address]
    IN  SumAt({i \in DOMAIN index : index[i].txhash = txhash}, Values(txReq.address))

\* C20: every confirmed entry of every answered page carries the sum of all
\* confirmed deltas of the address that reference its txid (as magnitude
\* and direction), also when the rows of the transaction lie on both sides
\* of the start of the page window.
C20_EntryIsNetAmount ==
    \A p \in DOMAIN txLog :
        txLog[p].status = "OK"
            => \A i \in DOMAIN txLog[p].data :
                  LET e == txLog[p].data[i]
                  IN  IsIndexEntry(e)
                          => /\ e.amount = Abs(NetAmount(e.txhash))
                             /\ e.direction = IF NetAmount(e.txhash) > 0
                                               THEN "Received" ELSE "Sent"

\* The first n elements of seq that follow its first k ones.
Window(seq, k, n) ==
    SubSeq(seq, k + 1, IF k + n <= Len(seq) THEN k + n ELSE Len(seq))

\* C21: the confirmed entries of every answered page p are the distinct
\* transactions at positions [(p-1)*pageSize, p*pageSize) of the address's
\* distinct-transaction sequence, in first-sighting order.
C21_PageIsDistinctWindow ==
    \A p \in DOMAIN txLog :
        (txLog[p].status = "OK" /\ txReq.direction = "Any")
            => Txids(ConfirmedEntries(p))
                 = Window(DistinctTxids(RequestedIndex), (p - 1) * txReq.pageSize,
                          txReq.pageSize)

IsMempoolEntry(e) == e.source = "mempool"

\* The mempool entries of the reply logged for page p.
MempoolEntries(p) == SelectSeq(txLog[p].data, IsMempoolEntry)

\* The number of entries of pages 1..n that present the mempool
\* transaction txhash.
Presented(txhash, n) ==
    LET F[p \in 0..n] ==
            IF p = 0 THEN 0
            ELSE F[p - 1] + Cardinality({i \in DOMAIN txLog[p].data :
                                           /\ txLog[p].data[i].source = "mempool"
                                           /\ txLog[p].data[i].txhash = txhash})
    IN  F[n]

\* The number of entries of pages 1..n.
PresentedEntries(n) ==
    LET F[p \in 0..n] == IF p = 0 THEN 0 ELSE F[p - 1] + Len(txLog[p].data)
    IN  F[n]

\* The mempool-visible transactions of the requested address.
MempoolTransactions ==
    {mempoolIndex[txReq.address][i].txhash : i \in DOMAIN mempoolIndex[txReq.address]}

\* Every confirmed transaction of the requested address has one index row.
OneRowPerTransaction ==
    Len(DistinctTxids(RequestedIndex)) = Len(addressIndex[txReq.address])

\* C27: on an address whose confirmed transactions have one row each, every
\* answered page has its mempool entries after the confirmed ones when
\* ascending and before them when descending, and counts the confirmed
\* transactions plus the mempool transactions; once pages 1..pages have been
\* answered they present each mempool transaction once and count entries
\* in all.
C27_MempoolCountedAsPresented ==
    (txReq.direction = "Any" /\ OneRowPerTransaction)
        => /\ \A p \in DOMAIN txLog :
                 txLog[p].status = "OK"
                     => LET d == txLog[p].data
                            n == Len(MempoolEntries(p))
                        IN  /\ \A i \in DOMAIN d :
                                  d[i].source = "mempool"
                                      <=> IF txReq.ascending THEN i > Len(d) - n ELSE i <= n
                            /\ txLog[p].count
                                 = Len(addressIndex[txReq.address])
                                   + Cardinality(MempoolTransactions)
           /\ (/\ 1 \in DOMAIN txLog
               /\ txLog[1].status = "OK"
               /\ \A p \in 1..txLog[1].pages : p \in DOMAIN txLog /\ txLog[p].status = "OK")
                 => /\ \A t \in MempoolTransactions : Presented(t, txLog[1].pages) = 1
                    /\ PresentedEntries(txLog[1].pages) = txLog[1].count

\* C8: CalculateFee never decreases when an input is added and is never
\* below the floor of 100000.
C8_FeeMonotone ==
    feeOut # -1 =>
        /\ feeOut <= CalculateFee(feeIn + 1)
        /\ feeOut >= 100000
        /\ feeOut % 100000 = 0

C8_Witness == feeOut = 200000 /\ CalculateFee(feeIn - 1) = 100000

(***************************************************************************)
(* Properties of IsTimeLocked                                              *)
(***************************************************************************)
\* C12: for an output found in its transaction, a lock value below the
\* threshold locks the output exactly while the chain height is less than
\* it, and any other lock value exactly while the median time past of the
\* tip (the current time without a tip) is less than it.
C12_LockedByHeightOrTime ==
    LET t == chainTx[lockIn]
        L == t.nLockTime
        clock == IF chainTip.hasTip THEN chainTip.mtp ELSE chainTip.now
    IN  (lockOut # NoLockOut /\ t.readable /\ t.found /\ t.vout)
            => /\ lockOut.ok
               /\ lockOut.locked = IF L < LOCKTIME_THRESHOLD
                                    THEN chainTip.height < L
                                    ELSE clock < L

\* A time lock one second past the median time past, and so still locked.
C12_Witness ==
    /\ lockOut # NoLockOut /\ lockOut.ok /\ lockOut.locked
    /\ chainTx[lockIn].nLockTime = 500000101
    /\ chainTip.mtp = 500000100

(***************************************************************************)
(* Properties of all requests together                                     *)
(***************************************************************************)
\* C16: no step of a balances, transactions or selection request, whether
\* the request succeeds or fails, changes the address index, the unspent
\* index, the mempool indexes, the instant locks or the chain tip.
C16_LedgerUnchanged == [][chainVars' = chainVars]_vars

\* A selection answered after a time-locked output was filtered out of a
\* fetched slice, next to a failed balances request and an answered page.
C16_Witness ==
    /\ sel.pc = "done" /\ selReply.code \in {"Valid", "TimedOut"}
    /\ \E i \in DOMAIN selFetched : Len(selFetched[i][2]) < nUtxosSlice
    /\ balReply.status = "BAD_REQUEST"
    /\ \E p \in DOMAIN txLog : txLog[p].status = "OK"
    /\ \E p \in DOMAIN txLog : txLog[p].status = "PageOutOfRange"
    /\ listReply.status = "OK"
    /\ \E i \in DOMAIN listReply.utxos : ~listReply.utxos[i].spendable

\* The error of the first row of rows whose time-lock evaluation fails,
\* "Valid" when none fails.
FirstFailure(rows) ==
    LET bad == {i \in DOMAIN rows : \/ ~chainTx[rows[i].txhash].readable
                                    \/ ~chainTx[rows[i].txhash].found}
    IN  IF bad = {} THEN "Valid"
        ELSE LET i == CHOOSE x \in bad : \A y \in bad : x <= y
             IN  IF ~chainTx[rows[i].txhash].readable THEN "BlockNotFound"
                 ELSE "TxNotFound"

\* The positions of the request whose address resolves, has an index record
\* and holds a delta whose evaluation fails.
FailingRequested ==
    {i \in DOMAIN balReq :
        /\ GetIndexKey(balReq[i]) /\ HasAddressIndex(balReq[i])
        /\ FirstFailure(addressIndex[balReq[i]]) # "Valid"}

\* C28: a slice holding an output whose time-lock evaluation fails is the
\* last slice the selection fetches, and the selection is answered with
\* that error and no solution; a balances request reaching an address with
\* a delta whose evaluation fails is answered with that error, no entry and
\* no snapshot of that address.
C28_LockFailureIsFatal ==
    /\ \A i \in DOMAIN selFetched :
          LET code == FirstFailure(Window(utxoIndex, selFetched[i][1] * nUtxosSlice,
                                          nUtxosSlice))
          IN  code # "Valid"
                 => /\ i = Len(selFetched)
                    /\ sel.pc = "done"
                    /\ selReply = [code |-> code, solution |-> NullSolution]
    /\ (BalancesAnswered /\ FailingRequested # {})
          => LET i == CHOOSE x \in FailingRequested : \A y \in FailingRequested : x <= y
             IN  /\ balReply.status = FirstFailure(addressIndex[balReq[i]])
                 /\ balReply.entries = <<>>
                 /\ ~balOut.ret
                 /\ \A j \in DOMAIN balOut.vecBalances :
                       balOut.vecBalances[j].address # balReq[i]

\* A deterministic selection that had a best solution when its second slice
\* met an unreadable block, and a balances request that failed on its
\* second address after a snapshot of the first.
C28_Witness ==
    /\ sel.pc = "done" /\ ~IsNull(sel.bestSolution)
    /\ Len(selFetched) = 2 /\ selReply.code = "BlockNotFound"
    /\ balReq = <<"A2", "A1">> /\ balReply.status = "BlockNotFound"
    /\ Len(balOut.vecBalances) = 1

\* No two outputs of the solution have the same txid and output index.
NoOutputTwice(s) ==
    \A i, j \in DOMAIN s.vecUtxos :
        (s.vecUtxos[i].txhash = s.vecUtxos[j].txhash
         /\ s.vecUtxos[i].index = s.vecUtxos[j].index) => i = j

\* The candidate step about to be taken offers the running solution an
\* output it already holds.
OffersSelectedOutput ==
    /\ sel.pc = "walk" /\ ~timeUp
    /\ sel' # sel
    /\ \E i \in DOMAIN sel.currentSolution.vecUtxos :
          /\ sel.currentSolution.vecUtxos[i].txhash = sel.unspentOutputs[sel.it].txhash
          /\ sel.currentSolution.vecUtxos[i].index = sel.unspentOutputs[sel.it].index

\* C29: while blocks and mempool transactions change the unspent index and
\* the spent index between the slice fetches of a request, the running, the
\* best and the returned solution never hold an output twice, and the step
\* that offers the running solution an output it already holds leaves its
\* outputs, amount and fee as they were.
C29_NoOutputTwiceUnderUpdates ==
    /\ [](/\ NoOutputTwice(sel.currentSolution)
          /\ NoOutputTwice(sel.bestSolution)
          /\ NoOutputTwice(selReply.solution))
    /\ [][OffersSelectedOutput
            => LET s == IF IsNull(sel'.currentSolution) THEN sel'.bestSolution
                        ELSE sel'.currentSolution
               IN  /\ s.vecUtxos = sel.currentSolution.vecUtxos
                   /\ s.amount = sel.currentSolution.amount
                   /\ s.fee = sel.currentSolution.fee]_vars

\* The running solution of a request that never reset it holds the output
\* the candidate loop has just passed, which an earlier slice had already
\* returned.
C29_Witness ==
    /\ sel.pc = "walk" /\ sel.it >= 2 /\ IsNull(sel.bestSolution)
    /\ utxoIndex # SubSeq(UtxoPool, 1, 4) /\ utxoIndex # UtxoPool
    /\ \E k \in DOMAIN sel.currentSolution.vecUtxos :
          /\ sel.currentSolution.vecUtxos[k] = sel.unspentOutputs[sel.it - 1]
          /\ \E i \in 1..(Len(selFetched) - 1) :
                \E j \in DOMAIN selFetched[i][2] :
                    selFetched[i][2][j] = sel.unspentOutputs[sel.it - 1]

====
